---- MODULE Spec2Model ----
(***************************************************************************)
(* Model of the istdaten cleaning pipeline (data_cleaner.py) and of the    *)
(* tiered cache reader (data_reader.py).                                   *)
(*                                                                         *)
(* A DataFrame is a record [cols, rows]: cols is the set of column names,  *)
(* rows the sequence of rows, each [idx, c] with idx the pandas index      *)
(* label and c the function from column name to cell.                      *)
(***************************************************************************)
EXTENDS Integers, Sequences, FiniteSets, TLC

VARIABLES
    fs,      \* the data directory: [dir, zip, csv, raw, cleaned, prepared]
    remote,  \* per date: what the monthly archive of the provider holds
    last,    \* the reader call that ended last: op, date, outcome, table, I/O trace
    prev,    \* the call before it, when it was the same call: same reader, same date
    nenv,    \* number of changes made to the directory from outside the program
    inp,     \* the DataFrame handed to a data_cleaner function
    out,     \* what that function returned: [status, tbl]
    fn,      \* which data_cleaner function was called
    arg      \* the DataFrame object that was handed in, as it is after the call

vars == <<fs, remote, last, prev, nenv, inp, out, fn, arg>>

(***************************************************************************)
(* Bounds                                                                  *)
(***************************************************************************)
NumDates == 2
MaxRows == 2
MaxEnv == 2

Dates == 1..NumDates

(***************************************************************************)
(* Cells.  k is the kind of value: "str" a text, "nan" a missing value of  *)
(* a text or float column, "ts" a pandas Timestamp, "nat" the missing      *)
(* Timestamp, "num" a float.  A text that spells a date carries its digit  *)
(* groups in f, in the order they are written: <<a, b, H, M, S>> is        *)
(* "a.b.2021 H:M:S" and <<a, b>> is "a.b.2021"; a Timestamp carries its    *)
(* seconds since 2021-01-01 00:00:00; a float carries its value.           *)
(***************************************************************************)
Str(s) == [k |-> "str", s |-> s, f |-> <<>>]
Txt(f) == [k |-> "str", s |-> "", f |-> f]
Ts(n) == [k |-> "ts", s |-> "", f |-> <<n>>]
Num(n) == [k |-> "num", s |-> "", f |-> <<n>>]
NaN == [k |-> "nan", s |-> "", f |-> <<>>]
NaT == [k |-> "nat", s |-> "", f |-> <<>>]
Unparsed == [k |-> "err", s |-> "", f |-> <<>>]

notna(c) == c.k \notin {"nan", "nat"}

\* pd.to_datetime(x, dayfirst=True) on one element
MonthDays == <<31, 28, 31, 30, 31, 30, 31, 31, 30, 31, 30, 31>>

RECURSIVE DaysBefore(_)
DaysBefore(m) == IF m <= 1 THEN 0 ELSE MonthDays[m - 1] + DaysBefore(m - 1)

ValidDate(day, month) == month \in 1..12 /\ day \in 1..MonthDays[month]

Seconds(day, month, f) ==
    (DaysBefore(month) + day - 1) * 86400
        + (IF Len(f) = 5 THEN f[3] * 3600 + f[4] * 60 + f[5] ELSE 0)

to_datetime(c) ==
    CASE c.k \in {"nan", "nat"} -> NaT
      [] c.k = "ts" -> c
      [] c.k = "str" /\ Len(c.f) \in {2, 5} ->
            IF ValidDate(c.f[1], c.f[2]) THEN Ts(Seconds(c.f[1], c.f[2], c.f))
            ELSE IF ValidDate(c.f[2], c.f[1]) THEN Ts(Seconds(c.f[2], c.f[1], c.f))
            ELSE Unparsed
      [] OTHER -> Unparsed

(***************************************************************************)
(* DataFrames and the outcome of a call                                    *)
(***************************************************************************)
NoTable == [cols |-> {}, rows |-> <<>>]
Ok(t) == [status |-> "ok", tbl |-> t]
Raise(e) == [status |-> e, tbl |-> NoTable]
Index(t) == {t.rows[i].idx : i \in 1..Len(t.rows)}
RowAt(t, i) == CHOOSE r \in {t.rows[j] : j \in 1..Len(t.rows)} : r.idx = i

DroppedColumns ==
    {"BETREIBER_ID", "LINIEN_ID", "UMLAUF_ID", "VERKEHRSMITTEL_TEXT", "FAELLT_AUS_TF"}
TimeColumns ==
    {"AN_PROGNOSE", "ANKUNFTSZEIT", "AB_PROGNOSE", "ABFAHRTSZEIT", "BETRIEBSTAG"}
KeptColumns ==
    TimeColumns \cup {"BETREIBER_ABK", "PRODUKT_ID", "AN_PROGNOSE_STATUS", "AB_PROGNOSE_STATUS"}
CsvColumns == KeptColumns \cup DroppedColumns

(***************************************************************************)
(* data_cleaner.py                                                         *)
(***************************************************************************)
\* df[mask]: the rows whose mask entry is true, index labels kept
BooleanIndex(df, mask) ==
    LET kept == SelectSeq([i \in 1..Len(df.rows) |-> i], LAMBDA i : mask[i])
    IN  [cols |-> df.cols, rows |-> [n \in 1..Len(kept) |-> df.rows[kept[n]]]]

\* df[df[col] == value]
SelectEqual(df, col, value) ==
    IF col \in df.cols
    THEN Ok(BooleanIndex(df, [i \in 1..Len(df.rows) |-> df.rows[i].c[col] = Str(value)]))
    ELSE Raise("KeyError")

\* df[df[a].notna() & df[b].notna()]
SelectNotNa(df, a, b) ==
    IF {a, b} \subseteq df.cols
    THEN Ok(BooleanIndex(df, [i \in 1..Len(df.rows) |->
                                notna(df.rows[i].c[a]) /\ notna(df.rows[i].c[b])]))
    ELSE Raise("KeyError")

remove_unnecessary_columns(df) ==
    IF DroppedColumns \subseteq df.cols
    THEN Ok([cols |-> df.cols \ DroppedColumns,
             rows |-> [i \in 1..Len(df.rows) |->
                        [idx |-> df.rows[i].idx,
                         c |-> [x \in df.cols \ DroppedColumns |-> df.rows[i].c[x]]]]])
    ELSE Raise("KeyError")

select_sbb_all(df) ==
    IF "BETREIBER_ABK" \in df.cols THEN Ok(df) ELSE Raise("KeyError")

select_sbb(df) == SelectEqual(df, "BETREIBER_ABK", "SBB")

select_trains_all(df) ==
    IF "PRODUKT_ID" \in df.cols THEN Ok(df) ELSE Raise("KeyError")

select_trains(df) == SelectEqual(df, "PRODUKT_ID", "Zug")

real_prognose_filter_abfahrt_off(df) ==
    IF "AB_PROGNOSE_STATUS" \in df.cols THEN Ok(df) ELSE Raise("KeyError")

real_prognose_filter_abfahrt(df) == SelectEqual(df, "AB_PROGNOSE_STATUS", "REAL")

real_prognose_filter_ankunft(df) == SelectEqual(df, "AN_PROGNOSE_STATUS", "REAL")

convert_to_datetimes(df) ==
    IF ~(TimeColumns \subseteq df.cols) THEN Raise("KeyError")
    ELSE IF \E i \in 1..Len(df.rows) : \E x \in TimeColumns :
                to_datetime(df.rows[i].c[x]) = Unparsed
         THEN Raise("ValueError")
         ELSE Ok([cols |-> df.cols,
                  rows |-> [i \in 1..Len(df.rows) |->
                    [idx |-> df.rows[i].idx,
                     c |-> [x \in df.cols |->
                             IF x \in TimeColumns THEN to_datetime(df.rows[i].c[x])
                             ELSE df.rows[i].c[x]]]]])

\* first definition of the name (data_cleaner.py:126), rebound by the second
bad_data_filter_abfahrt_first(df) == SelectNotNa(df, "AB_PROGNOSE", "ABFAHRTSZEIT")

\* second definition of the same name (data_cleaner.py:144): the one in force
bad_data_filter_abfahrt(df) == SelectNotNa(df, "AN_PROGNOSE", "ANKUNFTSZEIT")

\* (a - b) / pd.Timedelta(seconds=1) on one row
Minus(a, b) ==
    IF a.k = "ts" /\ b.k = "ts" THEN Num(a.f[1] - b.f[1]) ELSE NaN

\* df[name] = (df[pred] - df[sched]) / pd.Timedelta(seconds=1)
DelaySeconds(df, pred, sched, name) ==
    IF ~({pred, sched} \subseteq df.cols) THEN Raise("KeyError")
    ELSE IF \E i \in 1..Len(df.rows) :
                df.rows[i].c[pred].k = "str" \/ df.rows[i].c[sched].k = "str"
         THEN Raise("TypeError")
         ELSE Ok([cols |-> df.cols \cup {name},
                  rows |-> [i \in 1..Len(df.rows) |->
                    [idx |-> df.rows[i].idx,
                     c |-> [x \in df.cols \cup {name} |->
                             IF x = name
                             THEN Minus(df.rows[i].c[pred], df.rows[i].c[sched])
                             ELSE df.rows[i].c[x]]]]])

calculate_delay_abfahrt_ankunft(df) ==
    DelaySeconds(df, "AN_PROGNOSE", "ANKUNFTSZEIT", "ANKUNFTSVERSPAETUNG_s")

calculate_delay_abfahrt_swapped(df) ==
    DelaySeconds(df, "ABFAHRTSZEIT", "AB_PROGNOSE", "ABFAHRTSVERSPAETUNG_s")

calculate_delay_abfahrt(df) ==
    DelaySeconds(df, "AB_PROGNOSE", "ABFAHRTSZEIT", "ABFAHRTSVERSPAETUNG_s")

\* df[(df[col] > timedelta(minutes=-10) / timedelta(seconds=1))
\*    & (df[col] < timedelta(hours=1) / timedelta(seconds=1))]
SelectWithin(df, col) ==
    IF col \in df.cols
    THEN Ok(BooleanIndex(df, [i \in 1..Len(df.rows) |->
                                /\ df.rows[i].c[col].k = "num"
                                /\ df.rows[i].c[col].f[1] > 0 - 600
                                /\ df.rows[i].c[col].f[1] < 3600]))
    ELSE Raise("KeyError")

\* defined in data_cleaner.py and called by neither pipeline
remove_crazy_delays_abfahrt(df) == SelectWithin(df, "ABFAHRTSVERSPAETUNG_s")

remove_crazy_delays_ankunft(df) == SelectWithin(df, "ANKUNFTSVERSPAETUNG_s")

CleanStagesClipped ==
    <<"select_trains", "remove_unnecessary_columns", "convert_to_datetimes",
      "real_prognose_filter_abfahrt", "bad_data_filter_abfahrt", "calculate_delay_abfahrt",
      "remove_crazy_delays_abfahrt">>

\* the stages of clean_data_abfahrt, in the order of its statements
CleanStages ==
    <<"select_trains", "remove_unnecessary_columns", "convert_to_datetimes",
      "real_prognose_filter_abfahrt", "bad_data_filter_abfahrt", "calculate_delay_abfahrt">>

\* df = stage(df)
ApplyStage(stage, df) ==
    CASE stage = "select_sbb" -> select_sbb(df)
      [] stage = "select_trains" -> select_trains(df)
      [] stage = "remove_unnecessary_columns" -> remove_unnecessary_columns(df)
      [] stage = "convert_to_datetimes" -> convert_to_datetimes(df)
      [] stage = "real_prognose_filter_abfahrt" -> real_prognose_filter_abfahrt(df)
      [] stage = "bad_data_filter_abfahrt" -> bad_data_filter_abfahrt(df)
      [] stage = "remove_crazy_delays_abfahrt" -> remove_crazy_delays_abfahrt(df)
      [] stage = "remove_crazy_delays_ankunft" -> remove_crazy_delays_ankunft(df)
      [] OTHER -> calculate_delay_abfahrt(df)

\* each stage runs on what the stage before returned; an exception ends the call
RECURSIVE RunStages(_, _)
RunStages(a, stages) ==
    IF stages = <<>> \/ a.status # "ok" THEN a
    ELSE RunStages(ApplyStage(Head(stages), a.tbl), Tail(stages))

clean_data_abfahrt(df) == RunStages(Ok(df), CleanStages)

prepare_data(df) == RunStages(select_sbb(df), CleanStages)

\* The functions that change the DataFrame object they are given and return that same
\* object: df.drop(..., inplace=True) and df[col] = ...; the others bind a new object
\* (df = df[mask]) and leave the one they were given alone.
InPlaceStages ==
    {"remove_unnecessary_columns", "convert_to_datetimes", "calculate_delay_abfahrt"}

\* the order in which convert_to_datetimes assigns the columns
ConvertOrder == <<"AN_PROGNOSE", "ANKUNFTSZEIT", "AB_PROGNOSE", "ABFAHRTSZEIT", "BETRIEBSTAG">>

\* the assignments convert_to_datetimes completes: all before the first that raises
Converted(df) ==
    {ConvertOrder[k] : k \in {j \in 1..Len(ConvertOrder) :
        \A n \in 1..j :
            /\ ConvertOrder[n] \in df.cols
            /\ \A i \in 1..Len(df.rows) :
                    to_datetime(df.rows[i].c[ConvertOrder[n]]) # Unparsed}}

\* df[col] = df[col].apply(pd.to_datetime, dayfirst=True) for the columns in done
ConvertColumns(df, done) ==
    [cols |-> df.cols,
     rows |-> [i \in 1..Len(df.rows) |->
        [idx |-> df.rows[i].idx,
         c |-> [x \in df.cols |->
                 IF x \in done THEN to_datetime(df.rows[i].c[x]) ELSE df.rows[i].c[x]]]]]

\* the object handed to a stage, after the stage returned or raised
ArgAfter(stage, df) ==
    CASE stage = "remove_unnecessary_columns" ->
            IF DroppedColumns \subseteq df.cols THEN remove_unnecessary_columns(df).tbl
            ELSE df
      [] stage = "convert_to_datetimes" -> ConvertColumns(df, Converted(df))
      [] stage = "calculate_delay_abfahrt" ->
            IF calculate_delay_abfahrt(df).status = "ok"
            THEN calculate_delay_abfahrt(df).tbl
            ELSE df
      [] OTHER -> df

\* The caller's object after a sequence of stages, each run on what the stage before
\* returned: cur is that DataFrame, alias tells whether it still is the caller's
\* object. Once the local name is bound to a new object, the caller's stays as it is.
RECURSIVE ArgAfterStages(_, _, _, _)
RECURSIVE ArgAfterReturn(_, _, _, _)
ArgAfterStages(a, cur, alias, stages) ==
    IF stages = <<>> \/ ~alias THEN a
    ELSE ArgAfterReturn(ArgAfter(Head(stages), cur),
                        ApplyStage(Head(stages), cur),
                        Head(stages) \in InPlaceStages,
                        Tail(stages))

ArgAfterReturn(a, r, alias, stages) ==
    IF r.status # "ok" THEN a ELSE ArgAfterStages(a, r.tbl, alias, stages)

(***************************************************************************)
(* Files of the data directory.  A csv file is its header and its lines,   *)
(* every field a text ("" for an empty field).  A parquet file is          *)
(* columnar: the column names, the index and one array per column.         *)
(* The dates are days of February 2021, so one monthly archive holds them. *)
(***************************************************************************)
NoCsv == [exists |-> FALSE, header |-> {}, lines |-> <<>>]
CsvFile(lines) == [exists |-> TRUE, header |-> CsvColumns, lines |-> lines]
NoParquet == [exists |-> FALSE, cols |-> {}, index |-> <<>>, data |-> <<>>]

\* df.to_parquet(filename)
to_parquet(df) ==
    [exists |-> TRUE, cols |-> df.cols,
     index |-> [i \in 1..Len(df.rows) |-> df.rows[i].idx],
     data |-> [x \in df.cols |-> [i \in 1..Len(df.rows) |-> df.rows[i].c[x]]]]

\* pd.read_parquet(filename)
read_parquet(file) ==
    [cols |-> file.cols,
     rows |-> [i \in 1..Len(file.index) |->
                [idx |-> file.index[i],
                 c |-> [x \in file.cols |-> file.data[x][i]]]]]

\* pd.read_csv(filename, sep=';', dtype=str)
parse_csv(file) ==
    [cols |-> file.header,
     rows |-> [i \in 1..Len(file.lines) |->
                [idx |-> i - 1,
                 c |-> [x \in file.header |->
                         IF file.lines[i][x] = Str("") THEN NaN ELSE file.lines[i][x]]]]]

(***************************************************************************)
(* data_reader.py.  Each function takes the directory s and returns        *)
(* [fs, status, tbl, trace]: the directory after the call, "ok" or the     *)
(* exception raised, the DataFrame returned and the I/O it performed.      *)
(***************************************************************************)
Result(s, status, tbl, trace) ==
    [fs |-> s, status |-> status, tbl |-> tbl, trace |-> trace]

create_directory_if_not_exists(s) == [s EXCEPT !.dir = TRUE]

read_csv_empty(s, date) ==
    Result(create_directory_if_not_exists(s), "ok",
           IF s.csv[date].exists THEN parse_csv(s.csv[date])
           ELSE [cols |-> CsvColumns, rows |-> <<>>],
           <<"read_csv">>)

read_csv(s, date) ==
    LET s1 == create_directory_if_not_exists(s)
    IN  IF s1.csv[date].exists
        THEN Result(s1, "ok", parse_csv(s1.csv[date]), <<"read_csv">>)
        ELSE Result(s1, "FileNotFoundError", NoTable, <<"read_csv">>)

save_dataframe_to_parquet(s, df, date) ==
    [create_directory_if_not_exists(s) EXCEPT !.raw[date] = to_parquet(df)]

read_dataframe_from_parquet(s, date) ==
    LET s1 == create_directory_if_not_exists(s)
    IN  Result(s1, "ok", read_parquet(s1.raw[date]), <<"read_raw">>)

\* net: "connfail" requests.get raises; "badzip" the response is no zip archive;
\* "ok" the archive arrives and every csv it holds is extracted
download_archive(s, date, net, archive) ==
    CASE net = "connfail" -> Result(s, "ConnectionError", NoTable, <<"download">>)
      [] net = "badzip" ->
            Result([create_directory_if_not_exists(s) EXCEPT !.zip = "partial"],
                   "BadZipFile", NoTable, <<"download">>)
      [] OTHER ->
            Result([create_directory_if_not_exists(s) EXCEPT
                        !.zip = "complete",
                        !.csv = [d \in Dates |->
                                    IF archive[d].exists THEN archive[d] ELSE s.csv[d]]],
                   "ok", NoTable, <<"download">>)

StoreRawSkipped(r, date, trace) ==
    IF r.status # "ok"
    THEN Result(r.fs, r.status, NoTable, trace \o r.trace)
    ELSE Result(r.fs, "ok", r.tbl, trace \o r.trace)

\* r is what read_csv returned: df = read_csv(...); save_dataframe_to_parquet(df, ...)
StoreRaw(r, date, trace) ==
    IF r.status # "ok"
    THEN Result(r.fs, r.status, NoTable, trace \o r.trace)
    ELSE Result(save_dataframe_to_parquet(r.fs, r.tbl, date), "ok", r.tbl,
                trace \o r.trace \o <<"save_raw">>)

ReadAndStore(s, date, trace) == StoreRaw(read_csv(s, date), date, trace)

\* d is what download_archive returned
AfterDownload(d, date) ==
    IF d.status # "ok" THEN d ELSE ReadAndStore(d.fs, date, d.trace)

read_data_redownload(s, date, net, archive) ==
    IF s.raw[date].exists
    THEN read_dataframe_from_parquet(s, date)
    ELSE AfterDownload(download_archive(create_directory_if_not_exists(s),
                                        date, net, archive), date)

read_data_always(s, date, net, archive) ==
    IF s.csv[date].exists
    THEN ReadAndStore(create_directory_if_not_exists(s), date, <<>>)
    ELSE AfterDownload(download_archive(create_directory_if_not_exists(s),
                                        date, net, archive), date)

read_data(s, date, net, archive) ==
    IF s.raw[date].exists
    THEN read_dataframe_from_parquet(s, date)
    ELSE IF s.csv[date].exists
    THEN ReadAndStore(create_directory_if_not_exists(s), date, <<>>)
    ELSE AfterDownload(download_archive(create_directory_if_not_exists(s),
                                        date, net, archive), date)

\* r is what read_data returned, c what clean_data_abfahrt returned:
\* df.to_parquet(filename); return df
StoreCleaned(r, c, date) ==
    IF c.status # "ok"
    THEN Result(r.fs, c.status, NoTable, r.trace \o <<"clean">>)
    ELSE Result([r.fs EXCEPT !.cleaned[date] = to_parquet(c.tbl)], "ok",
                c.tbl, r.trace \o <<"clean", "save_cleaned">>)

\* df = read_data(date); df = dc.clean_data_abfahrt(df)
CleanAndStore(r, date) ==
    IF r.status # "ok" THEN r ELSE StoreCleaned(r, clean_data_abfahrt(r.tbl), date)

read_cleaned_data(s, date, net, archive) ==
    IF s.cleaned[date].exists
    THEN Result(create_directory_if_not_exists(s), "ok",
                read_parquet(s.cleaned[date]), <<"read_cleaned">>)
    ELSE CleanAndStore(read_data(create_directory_if_not_exists(s), date, net, archive),
                       date)

\* r is what read_cleaned_data returned, p what prepare_data returned:
\* df.to_parquet(filename); return df
StorePrepared(r, p, date) ==
    IF p.status # "ok"
    THEN Result(r.fs, p.status, NoTable, r.trace \o <<"prepare">>)
    ELSE Result([r.fs EXCEPT !.prepared[date] = to_parquet(p.tbl)], "ok",
                p.tbl, r.trace \o <<"prepare", "save_prepared">>)

\* df = read_cleaned_data(date); df = dc.prepare_data(df)
PrepareAndStore(r, date) ==
    IF r.status # "ok" THEN r ELSE StorePrepared(r, prepare_data(r.tbl), date)

EagerPrepared(r, date) ==
    IF r.status = "ok" /\ r.fs.prepared[date].exists
    THEN Result(r.fs, "ok", read_parquet(r.fs.prepared[date]), <<"read_prepared">>)
    ELSE PrepareAndStore(r, date)

read_prepared_data_eager(s, date, net, archive) ==
    EagerPrepared(read_cleaned_data(create_directory_if_not_exists(s), date, net, archive),
                  date)

read_prepared_data(s, date, net, archive) ==
    IF s.prepared[date].exists
    THEN Result(create_directory_if_not_exists(s), "ok",
                read_parquet(s.prepared[date]), <<"read_prepared">>)
    ELSE PrepareAndStore(read_cleaned_data(create_directory_if_not_exists(s),
                                           date, net, archive), date)

\* pd.concat(dfs): the rows of the frames one after the other, index labels kept,
\* over the union of their columns; an empty list raises ValueError
RECURSIVE ConcatRows(_, _)
ConcatRows(dfs, cols) ==
    IF dfs = <<>> THEN <<>>
    ELSE [i \in 1..Len(Head(dfs).rows) |->
            [idx |-> Head(dfs).rows[i].idx,
             c |-> [x \in cols |->
                     IF x \in Head(dfs).cols THEN Head(dfs).rows[i].c[x] ELSE NaN]]]
         \o ConcatRows(Tail(dfs), cols)

concat(dfs) ==
    IF dfs = <<>> THEN Raise("ValueError")
    ELSE Ok([cols |-> UNION {dfs[i].cols : i \in 1..Len(dfs)},
             rows |-> ConcatRows(dfs, UNION {dfs[i].cols : i \in 1..Len(dfs)})])

RangeReaders == {"read_cleaned_data_from_daterange", "read_prepared_data_from_daterange"}

\* df = read_cleaned_data(date), or df = read_prepared_data(date)
SingleRead(op, s, date, net, archive) ==
    IF op = "read_cleaned_data_from_daterange"
    THEN read_cleaned_data(s, date, net, archive)
    ELSE read_prepared_data(s, date, net, archive)

\* The loop of a range reader: acc is [fs, status, trace, calls, dfs] with calls the
\* dates the single-date reader was called for and dfs the list of its tables.
NoReads(s) == [fs |-> s, status |-> "ok", trace |-> <<>>, calls |-> <<>>, dfs |-> <<>>]

\* dfs.append(df), r being what the single-date reader returned for date
Collect(acc, r, date) ==
    [fs |-> r.fs, status |-> r.status, trace |-> acc.trace \o r.trace,
     calls |-> Append(acc.calls, date),
     dfs |-> IF r.status = "ok" THEN Append(acc.dfs, r.tbl) ELSE acc.dfs]

RECURSIVE ReadEachAll(_, _, _, _, _, _)
ReadEachAll(op, acc, date, end, net, archive) ==
    IF date > end THEN acc
    ELSE ReadEachAll(op, Collect(acc, SingleRead(op, acc.fs, date, net[date], archive), date),
                     date + 1, end, net, archive)

\* for date in dates: an exception of the single-date reader ends the loop
RECURSIVE ReadEach(_, _, _, _, _, _)
ReadEach(op, acc, date, end, net, archive) ==
    IF date > end \/ acc.status # "ok" THEN acc
    ELSE ReadEach(op, Collect(acc, SingleRead(op, acc.fs, date, net[date], archive), date),
                  date + 1, end, net, archive)

\* return pd.concat(dfs), c being what pd.concat returned
Concatenated(acc, c) ==
    [fs |-> acc.fs, status |-> c.status, tbl |-> c.tbl, trace |-> acc.trace,
     calls |-> acc.calls]

RangeResult(acc) ==
    IF acc.status # "ok"
    THEN [fs |-> acc.fs, status |-> acc.status, tbl |-> NoTable, trace |-> acc.trace,
          calls |-> acc.calls]
    ELSE Concatenated(acc, concat(acc.dfs))

\* net gives the outcome of the network for the download of each date
read_cleaned_data_from_daterange(s, date_start, date_end, net, archive) ==
    RangeResult(ReadEach("read_cleaned_data_from_daterange", NoReads(s),
                         date_start, date_end, net, archive))

read_prepared_data_from_daterange(s, date_start, date_end, net, archive) ==
    RangeResult(ReadEach("read_prepared_data_from_daterange", NoReads(s),
                         date_start, date_end, net, archive))

(***************************************************************************)
(* Input data: the lines a csv file of the provider can hold               *)
(***************************************************************************)
\* the four time fields of a line: ANKUNFTSZEIT, AN_PROGNOSE, ABFAHRTSZEIT, AB_PROGNOSE
TimeCase(name, day) ==
    LET A == Txt(<<day, 2, 9, 58, 0>>)
        AP == Txt(<<day, 2, 9, 58, 30>>)
        D == Txt(<<day, 2, 10, 0, 0>>)
    IN  CASE name = "late150" -> <<A, AP, D, Txt(<<day, 2, 10, 2, 30>>)>>
          [] name = "firststop" ->
                <<Str(""), Str(""), Txt(<<31, 1, 23, 59, 0>>), Txt(<<1, 2, 0, 1, 30>>)>>
          [] name = "noprognosis" -> <<A, AP, D, Str("")>>
          [] name = "early600" -> <<A, AP, D, Txt(<<day, 2, 9, 50, 0>>)>>
          [] name = "late3600" -> <<A, AP, D, Txt(<<day, 2, 11, 0, 0>>)>>
          [] OTHER -> <<A, AP, D, Str("unbekannt")>>

TimeCases == {"late150", "firststop", "noprognosis", "early600", "late3600", "garbled"}
Statuses == {<<"REAL", "REAL">>, <<"REAL", "GESCHAETZT">>, <<"GESCHAETZT", "REAL">>}

Line(om, st, tc, day) ==
    LET t == TimeCase(tc, day)
    IN  [x \in CsvColumns |->
            CASE x = "BETREIBER_ABK" -> Str(om[1])
              [] x = "PRODUKT_ID" -> Str(om[2])
              [] x = "AN_PROGNOSE_STATUS" -> Str(st[1])
              [] x = "AB_PROGNOSE_STATUS" -> Str(st[2])
              [] x = "ANKUNFTSZEIT" -> t[1]
              [] x = "AN_PROGNOSE" -> t[2]
              [] x = "ABFAHRTSZEIT" -> t[3]
              [] x = "AB_PROGNOSE" -> t[4]
              [] x = "BETRIEBSTAG" -> Txt(<<day, 2>>)
              [] x = "FAELLT_AUS_TF" -> Str("false")
              [] x = "VERKEHRSMITTEL_TEXT" -> Str("IC")
              [] OTHER -> Str("11")]

\* SBB trains in every combination; another operator and another transport mode in some
Lines ==
    {Line(<<"SBB", "Zug">>, st, tc, 1) : st \in Statuses, tc \in TimeCases}
        \cup {Line(<<"BLS", "Zug">>, st, tc, 1) : st \in Statuses, tc \in {"late150", "noprognosis"}}
        \cup {Line(<<"SBB", "Bus">>, <<"REAL", "REAL">>, tc, 1) : tc \in {"late150", "garbled"}}
        \cup {Line(<<"BLS", "Zug">>, <<"REAL", "REAL">>, "garbled", 1)}

RECURSIVE SeqsUpTo(_, _)
SeqsUpTo(S, n) ==
    IF n = 0 THEN {<<>>}
    ELSE LET shorter == SeqsUpTo(S, n - 1)
         IN  shorter \cup {Append(q, x) : q \in {z \in shorter : Len(z) = n - 1}, x \in S}

\* the DataFrames handed to the data_cleaner functions: as read_csv returns them
InputTables == {parse_csv(CsvFile(q)) : q \in SeqsUpTo(Lines, MaxRows) \ {<<>>}}

\* the csv of a date in the archive: complete lines, or with one garbled field
GoodCsv(d) ==
    CsvFile(<<Line(<<"SBB", "Zug">>, <<"REAL", "REAL">>, "late150", d),
              Line(<<"SBB", "Bus">>, <<"REAL", "REAL">>, "late150", d),
              Line(<<"BLS", "Zug">>, <<"GESCHAETZT", "REAL">>, "early600", d),
              Line(<<"SBB", "Zug">>, <<"REAL", "GESCHAETZT">>, "late3600", d)>>)

GarbledCsv(d) ==
    CsvFile(<<Line(<<"SBB", "Zug">>, <<"REAL", "REAL">>, "garbled", d)>>)

ArchiveCsv(kind, d) ==
    CASE kind = "good" -> GoodCsv(d)
      [] kind = "garbled" -> GarbledCsv(d)
      [] OTHER -> NoCsv

\* a file put into the directory by something else than this program
ForeignCsv(d) ==
    CsvFile(<<Line(<<"SBB", "Zug">>, <<"REAL", "REAL">>, "early600", d)>>)

Tiers == {"csv", "raw", "cleaned", "prepared"}

ForeignFile(tier, d) ==
    CASE tier = "csv" -> ForeignCsv(d)
      [] tier = "raw" -> to_parquet(parse_csv(ForeignCsv(d)))
      [] tier = "cleaned" -> to_parquet(clean_data_abfahrt(parse_csv(ForeignCsv(d))).tbl)
      [] OTHER -> to_parquet(prepare_data(parse_csv(ForeignCsv(d))).tbl)

NoFile(tier) == IF tier = "csv" THEN NoCsv ELSE NoParquet

(***************************************************************************)
(* The reader as a state machine                                           *)
(***************************************************************************)
Readers == {"read_data", "read_cleaned_data", "read_prepared_data"}
Nets == {"ok", "connfail", "badzip"}

NoCall ==
    [op |-> "none", date |-> 0, end |-> 0, status |-> "none", tbl |-> NoTable,
     trace |-> <<>>, calls |-> <<>>]
Idle == [status |-> "none", tbl |-> NoTable]

EmptyDir(dir) ==
    [dir |-> dir, zip |-> "absent",
     csv |-> [d \in Dates |-> NoCsv],
     raw |-> [d \in Dates |-> NoParquet],
     cleaned |-> [d \in Dates |-> NoParquet],
     prepared |-> [d \in Dates |-> NoParquet]]

Init ==
    /\ \E dir \in BOOLEAN : fs = EmptyDir(dir)
    /\ remote \in {[d \in Dates |-> ArchiveCsv(k[d], d)] :
                        k \in [Dates -> {"missing", "good", "garbled"}]}
    /\ last = NoCall
    /\ prev = NoCall
    /\ nenv = 0
    /\ inp = NoTable
    /\ out = Idle
    /\ fn = "none"
    /\ arg = NoTable

Returned(op, date, r) ==
    /\ fs' = r.fs
    /\ last' = [op |-> op, date |-> date, end |-> date, status |-> r.status,
                tbl |-> r.tbl, trace |-> r.trace, calls |-> <<>>]
    /\ prev' = IF last.op = op /\ last.date = date THEN last ELSE NoCall
    /\ UNCHANGED <<remote, nenv, inp, out, fn, arg>>

ReadData ==
    \E date \in Dates, net \in Nets :
        Returned("read_data", date, read_data(fs, date, net, remote))

ReadCleanedData ==
    \E date \in Dates, net \in Nets :
        Returned("read_cleaned_data", date, read_cleaned_data(fs, date, net, remote))

ReadPreparedData ==
    \E date \in Dates, net \in Nets :
        Returned("read_prepared_data", date, read_prepared_data(fs, date, net, remote))

\* a range reader returned or raised; date is the start of the range
RangeReturned(op, date_start, date_end, r) ==
    /\ fs' = r.fs
    /\ last' = [op |-> op, date |-> date_start, end |-> date_end, status |-> r.status,
                tbl |-> r.tbl, trace |-> r.trace, calls |-> r.calls]
    /\ prev' = NoCall
    /\ UNCHANGED <<remote, nenv, inp, out, fn, arg>>

\* The network during a range read: it works, or it fails at the download of one date
\* (the read ends at the first download that fails, so later outcomes do not matter).
\* read_data downloads only for a date that has neither its parquet nor its csv, and
\* files are never removed during a call: the outcome for other dates is never asked.
NetPlans(s, date_start, date_end) ==
    {[d \in Dates |-> IF d = k THEN f ELSE "ok"] :
        k \in {d \in date_start..date_end : ~s.raw[d].exists /\ ~s.csv[d].exists} \cup {0},
        f \in {"connfail", "badzip"}}

ReadCleanedDataFromDaterange ==
    \E date_start \in Dates, date_end \in Dates :
      \E net \in NetPlans(fs, date_start, date_end) :
        RangeReturned("read_cleaned_data_from_daterange", date_start, date_end,
                      read_cleaned_data_from_daterange(fs, date_start, date_end, net, remote))

ReadPreparedDataFromDaterange ==
    \E date_start \in Dates, date_end \in Dates :
      \E net \in NetPlans(fs, date_start, date_end) :
        RangeReturned("read_prepared_data_from_daterange", date_start, date_end,
                      read_prepared_data_from_daterange(fs, date_start, date_end, net, remote))

\* the directory is an ordinary directory: files in it can be removed or replaced
External(s) ==
    /\ fs.dir
    /\ nenv < MaxEnv
    /\ fs' = s
    /\ nenv' = nenv + 1
    /\ last' = NoCall
    /\ prev' = NoCall
    /\ UNCHANGED <<remote, inp, out, fn, arg>>

DeleteFile ==
    \E tier \in Tiers, d \in Dates :
        /\ fs[tier][d].exists
        /\ External([fs EXCEPT ![tier][d] = NoFile(tier)])

PutFile ==
    \E tier \in Tiers, d \in Dates :
        /\ fs[tier][d] # ForeignFile(tier, d)
        /\ External([fs EXCEPT ![tier][d] = ForeignFile(tier, d)])

Next == ReadData \/ ReadCleanedData \/ ReadPreparedData

Spec == Init /\ [][Next]_vars

\* the single-date readers and the range readers
NextRange == Next \/ ReadCleanedDataFromDaterange \/ ReadPreparedDataFromDaterange

SpecRange == Init /\ [][NextRange]_vars

\* the reader in a directory that is also changed from outside; the archive is complete
InitEnv ==
    /\ Init
    /\ remote = [d \in Dates |-> GoodCsv(d)]

NextEnv == Next \/ DeleteFile \/ PutFile

SpecEnv == InitEnv /\ [][NextEnv]_vars

(***************************************************************************)
(* The cleaning functions applied to every input table                     *)
(***************************************************************************)
InitPipe ==
    /\ fs = EmptyDir(FALSE)
    /\ remote = [d \in Dates |-> NoCsv]
    /\ last = NoCall
    /\ prev = NoCall
    /\ nenv = 0
    /\ inp \in InputTables
    /\ out = Idle
    /\ fn = "none"
    /\ arg = NoTable

\* name was called with the object inp, returned r and left the object as a
Called(name, r, a) ==
    /\ fn' = name
    /\ out' = r
    /\ arg' = a
    /\ UNCHANGED <<fs, remote, last, prev, nenv, inp>>

CallSelectTrains ==
    Called("select_trains", select_trains(inp),
           ArgAfterStages(inp, inp, TRUE, <<"select_trains">>))

CallCleanDataAbfahrt ==
    Called("clean_data_abfahrt", clean_data_abfahrt(inp),
           ArgAfterStages(inp, inp, TRUE, CleanStages))

CallPrepareData ==
    Called("prepare_data", prepare_data(inp),
           ArgAfterStages(inp, inp, TRUE, <<"select_sbb">> \o CleanStages))

\* calculate_delay_abfahrt on the frame convert_to_datetimes returns
CallCalculateDelayAbfahrt ==
    Called("calculate_delay_abfahrt",
           RunStages(Ok(inp), <<"convert_to_datetimes", "calculate_delay_abfahrt">>),
           ArgAfterStages(inp, inp, TRUE,
                          <<"convert_to_datetimes", "calculate_delay_abfahrt">>))

NextPipe ==
    CallSelectTrains \/ CallCleanDataAbfahrt \/ CallPrepareData \/ CallCalculateDelayAbfahrt

SpecPipe == InitPipe /\ [][NextPipe]_vars

(***************************************************************************)
(* Each stage called on its own, on a table as read from the csv or on one *)
(* whose time columns are converted already                                *)
(***************************************************************************)
StageNames ==
    {"select_sbb", "select_trains", "remove_unnecessary_columns", "convert_to_datetimes",
     "real_prognose_filter_abfahrt", "bad_data_filter_abfahrt", "calculate_delay_abfahrt"}

InitStage ==
    /\ fs = EmptyDir(FALSE)
    /\ remote = [d \in Dates |-> NoCsv]
    /\ last = NoCall
    /\ prev = NoCall
    /\ nenv = 0
    /\ inp \in InputTables \cup
            {convert_to_datetimes(t).tbl :
                t \in {u \in InputTables : convert_to_datetimes(u).status = "ok"}}
    /\ out = Idle
    /\ fn = "none"
    /\ arg = NoTable

CallStage ==
    \E stage \in StageNames :
        Called(stage, ApplyStage(stage, inp), ArgAfterStages(inp, inp, TRUE, <<stage>>))

NextStage == CallStage \/ CallCleanDataAbfahrt \/ CallPrepareData

SpecStage == InitStage /\ [][NextStage]_vars

(***************************************************************************)
(* Properties of the tiered cache reader                                   *)
(***************************************************************************)
Events(trace) == {trace[i] : i \in 1..Len(trace)}
StartsWith(trace, e) == trace # <<>> /\ Head(trace) = e

\* C1: no reader call recomputes or rewrites a tier whose artifact exists when the
\* call starts: the artifact is the same file afterwards, the call performed none of
\* the I/O or computation that produces that tier, and it left the artifacts of the
\* other dates alone.
C1_ExistingTierNotRecomputed ==
    [][last'.op \in Readers =>
        LET d == last'.date
            ev == Events(last'.trace)
        IN  /\ fs.raw[d].exists =>
                /\ fs'.raw[d] = fs.raw[d]
                /\ ev \cap {"download", "read_csv", "save_raw"} = {}
            /\ fs.cleaned[d].exists =>
                /\ fs'.cleaned[d] = fs.cleaned[d]
                /\ ev \cap {"clean", "save_cleaned"} = {}
            /\ fs.prepared[d].exists =>
                /\ fs'.prepared[d] = fs.prepared[d]
                /\ ev \cap {"prepare", "save_prepared"} = {}
            /\ \A e \in Dates \ {d} :
                /\ fs'.raw[e] = fs.raw[e]
                /\ fs'.cleaned[e] = fs.cleaned[e]
                /\ fs'.prepared[e] = fs.prepared[e]]_vars

\* a second read_cleaned_data for the date loads the artifact the first one wrote
C1_Witness ==
    /\ last.op = "read_cleaned_data"
    /\ last.trace = <<"read_cleaned">>
    /\ prev.op = "read_cleaned_data"
    /\ {"save_raw", "save_cleaned"} \subseteq Events(prev.trace)
    /\ fs.raw[last.date].exists

\* C2: read_prepared_data that finds no prepared artifact and loads the cleaned one
\* returns the SBB rows of the cleaned table and has persisted them as the prepared
\* artifact; it does not end with an error.
C2_PreparedFromCleaned ==
    (last.op = "read_prepared_data" /\ StartsWith(last.trace, "read_cleaned")) =>
        /\ last.status = "ok"
        /\ last.tbl = select_sbb(read_parquet(fs.cleaned[last.date])).tbl
        /\ fs.prepared[last.date].exists
        /\ read_parquet(fs.prepared[last.date]) = last.tbl

\* C3: read_prepared_data with an existing prepared artifact returns its content and
\* does nothing else: csv, raw and cleaned files and the archive file are as before,
\* whatever was deleted or replaced in the directory; likewise read_cleaned_data with
\* an existing cleaned artifact.
C3_HitTouchesNothingBelow ==
    [][/\ (last'.op = "read_prepared_data" /\ fs.prepared[last'.date].exists) =>
            /\ last'.status = "ok"
            /\ last'.tbl = read_parquet(fs.prepared[last'.date])
            /\ last'.trace = <<"read_prepared">>
            /\ fs' = [fs EXCEPT !.dir = TRUE]
       /\ (last'.op = "read_cleaned_data" /\ fs.cleaned[last'.date].exists) =>
            /\ last'.status = "ok"
            /\ last'.tbl = read_parquet(fs.cleaned[last'.date])
            /\ last'.trace = <<"read_cleaned">>
            /\ fs' = [fs EXCEPT !.dir = TRUE]]_vars

\* the prepared artifact is returned although the cleaned and raw artifacts of the
\* date are gone, and they stay gone
C3_Witness ==
    /\ last.op = "read_prepared_data"
    /\ last.status = "ok"
    /\ last.tbl = read_parquet(fs.prepared[last.date])
    /\ ~fs.cleaned[last.date].exists
    /\ ~fs.raw[last.date].exists
    /\ fs.zip = "complete"
    /\ nenv = 2

\* C4: a reader called twice in a row for the same date returns a table both times,
\* and the same table (calls that fail for want of data are left aside).
SourceFailures == {"ConnectionError", "BadZipFile", "FileNotFoundError", "ValueError"}

C4_SameTableTwice ==
    (prev.op \in Readers /\ prev.status \notin SourceFailures) =>
        /\ prev.status = "ok"
        /\ last.status = "ok"
        /\ last.tbl = prev.tbl

\* C5: a call downloads only when the date has neither raw artifact nor csv, parses
\* the csv only when the date has no raw artifact, and read_cleaned_data that finds
\* nothing of the date and returns has done download, csv parse, raw save, clean,
\* cleaned save in this order, leaving the raw and the cleaned artifact.
C5_ResolutionOrder ==
    [][last'.op \in Readers =>
        LET d == last'.date
            ev == Events(last'.trace)
        IN  /\ "download" \in ev => ~fs.raw[d].exists /\ ~fs.csv[d].exists
            /\ "read_csv" \in ev => ~fs.raw[d].exists
            /\ ( /\ last'.op = "read_cleaned_data"
                 /\ last'.status = "ok"
                 /\ ~fs.csv[d].exists /\ ~fs.raw[d].exists /\ ~fs.cleaned[d].exists ) =>
                /\ last'.trace =
                        <<"download", "read_csv", "save_raw", "clean", "save_cleaned">>
                /\ fs'.raw[d].exists
                /\ fs'.cleaned[d].exists]_vars

C5_Witness ==
    /\ last.op = "read_cleaned_data"
    /\ last.status = "ok"
    /\ last.trace = <<"download", "read_csv", "save_raw", "clean", "save_cleaned">>
    /\ fs.raw[last.date].exists
    /\ fs.cleaned[last.date].exists

(***************************************************************************)
(* Properties of the cleaning pipeline                                     *)
(***************************************************************************)
Rows(t) == {t.rows[i] : i \in 1..Len(t.rows)}
Cleaned == fn = "clean_data_abfahrt" /\ out.status = "ok"
DelayColumn == "ABFAHRTSVERSPAETUNG_s"

\* C6 as stated: every row clean_data_abfahrt returns has arrival status REAL and
\* departure status REAL.
C6_BothStatusesReal ==
    Cleaned =>
        \A r \in Rows(out.tbl) :
            /\ r.c["AN_PROGNOSE_STATUS"] = Str("REAL")
            /\ r.c["AB_PROGNOSE_STATUS"] = Str("REAL")

SameButArrivalStatus(a, b) ==
    \A x \in DOMAIN a.c \ {"AN_PROGNOSE_STATUS"} : a.c[x] = b.c[x]

\* C6 as amended: every row clean_data_abfahrt returns has departure status REAL, no
\* input row with another departure status is returned, and the arrival status does
\* not decide: of two input rows that differ in the arrival status alone, both are
\* returned or neither.
C6_DepartureStatusReal ==
    Cleaned =>
        /\ \A r \in Rows(out.tbl) : r.c["AB_PROGNOSE_STATUS"] = Str("REAL")
        /\ \A a \in Rows(inp) :
                a.c["AB_PROGNOSE_STATUS"] # Str("REAL") => a.idx \notin Index(out.tbl)
        /\ \A a, b \in Rows(inp) :
                SameButArrivalStatus(a, b) =>
                    (a.idx \in Index(out.tbl) <=> b.idx \in Index(out.tbl))

\* a row with estimated arrival is returned, a train row with arrival REAL and
\* estimated departure is not
C6_Witness ==
    /\ Cleaned
    /\ \E r \in Rows(out.tbl) : r.c["AN_PROGNOSE_STATUS"] = Str("GESCHAETZT")
    /\ \E a \in Rows(inp) :
        /\ a.c["PRODUKT_ID"] = Str("Zug")
        /\ a.c["AN_PROGNOSE_STATUS"] = Str("REAL")
        /\ a.c["AB_PROGNOSE_STATUS"] = Str("GESCHAETZT")
        /\ a.idx \notin Index(out.tbl)

\* C7: every row clean_data_abfahrt returns has a scheduled and a predicted departure
\* and therefore a departure delay that is not null.
C7_DelayOnlyOnNonNull ==
    Cleaned =>
        \A r \in Rows(out.tbl) :
            /\ notna(r.c["ABFAHRTSZEIT"])
            /\ notna(r.c["AB_PROGNOSE"])
            /\ notna(r.c[DelayColumn])

\* C8 as stated: every row clean_data_abfahrt returns has an arrival delay and a
\* departure delay.
C8_BothDelaysDerived ==
    Cleaned =>
        \A r \in Rows(out.tbl) : {"ANKUNFTSVERSPAETUNG_s", DelayColumn} \subseteq DOMAIN r.c

\* C8 as amended: the frame clean_data_abfahrt returns has the columns kept from the
\* csv and the departure delay, no arrival delay; the departure delay of a row is its
\* predicted minus its scheduled departure when both are there, and null otherwise.
C8_DepartureDelayOnly ==
    Cleaned =>
        /\ out.tbl.cols = KeptColumns \cup {DelayColumn}
        /\ "ANKUNFTSVERSPAETUNG_s" \notin out.tbl.cols
        /\ \A r \in Rows(out.tbl) :
            r.c[DelayColumn] =
                IF notna(r.c["AB_PROGNOSE"]) /\ notna(r.c["ABFAHRTSZEIT"])
                THEN Num(r.c["AB_PROGNOSE"].f[1] - r.c["ABFAHRTSZEIT"].f[1])
                ELSE NaN

C8_Witness ==
    /\ Cleaned
    /\ \E r \in Rows(out.tbl) : r.c[DelayColumn] = Num(150)
    /\ \E r \in Rows(out.tbl) : notna(r.c["AN_PROGNOSE"]) /\ notna(r.c["ANKUNFTSZEIT"])

\* the instant a day-first text spells, and the order of two such texts
TextSeconds(c) == Seconds(c.f[1], c.f[2], c.f)
Later(p, s) ==
    LET a == <<p.f[2], p.f[1], p.f[3], p.f[4], p.f[5]>>
        b == <<s.f[2], s.f[1], s.f[3], s.f[4], s.f[5]>>
    IN  \E i \in 1..5 : a[i] > b[i] /\ \A j \in 1..(i - 1) : a[j] = b[j]

\* C9: for every row that has a scheduled and a predicted departure, the departure
\* delay is the predicted minus the scheduled time in seconds: positive exactly when
\* the prediction is later, and 150 for 10:00:00 and 10:02:30.
C9_DepartureDelaySeconds ==
    (fn = "calculate_delay_abfahrt" /\ out.status = "ok") =>
        \A r \in Rows(out.tbl) :
            LET s == RowAt(inp, r.idx).c["ABFAHRTSZEIT"]
                p == RowAt(inp, r.idx).c["AB_PROGNOSE"]
                delay == r.c[DelayColumn]
            IN  (notna(s) /\ notna(p)) =>
                    /\ delay = Num(TextSeconds(p) - TextSeconds(s))
                    /\ delay.f[1] > 0 <=> Later(p, s)
                    /\ delay.f[1] < 0 <=> Later(s, p)
                    /\ (s = Txt(<<1, 2, 10, 0, 0>>) /\ p = Txt(<<1, 2, 10, 2, 30>>)) =>
                            delay = Num(150)

\* a departure ten minutes early, and one late across the end of the month
C9_Witness ==
    /\ fn = "calculate_delay_abfahrt"
    /\ out.status = "ok"
    /\ \E r \in Rows(out.tbl) : r.c[DelayColumn] = Num(0 - 600)
    /\ \E r \in Rows(out.tbl) :
        /\ RowAt(inp, r.idx).c["ABFAHRTSZEIT"] = Txt(<<31, 1, 23, 59, 0>>)
        /\ r.c[DelayColumn] = Num(150)

\* C10: the rows clean_data_abfahrt returns are rows of select_trains of the same
\* input, each once and unchanged in the columns that are not converted, so there are
\* no more of them, and each has transport mode "Zug".
C10_CleanWithinTrains ==
    Cleaned =>
        LET t == select_trains(inp).tbl
        IN  /\ Index(out.tbl) \subseteq Index(t)
            /\ Cardinality(Index(out.tbl)) = Len(out.tbl.rows)
            /\ Len(out.tbl.rows) <= Len(t.rows)
            /\ \A r \in Rows(out.tbl) :
                /\ r.c["PRODUKT_ID"] = Str("Zug")
                /\ \A x \in KeptColumns \ TimeColumns : r.c[x] = RowAt(t, r.idx).c[x]

\* a bus row and a train row go in, the train row comes out
C10_Witness ==
    /\ Cleaned
    /\ Len(out.tbl.rows) >= 1
    /\ Len(select_trains(inp).tbl.rows) < Len(inp.rows)
    /\ \E a \in Rows(inp) : a.c["PRODUKT_ID"] = Str("Bus")

Prepared == fn = "prepare_data" /\ out.status = "ok"
Operators(t) == {r.c["BETREIBER_ABK"] : r \in Rows(t)}

\* C11 as stated: prepare_data of a table with SBB rows and rows of other operators
\* returns only SBB rows, and they are a strict subset of the rows clean_data_abfahrt
\* returns for the same table.
C11_PreparedStrictSubset ==
    ( /\ Prepared
      /\ clean_data_abfahrt(inp).status = "ok"
      /\ Str("SBB") \in Operators(inp)
      /\ Operators(inp) # {Str("SBB")} ) =>
        /\ Operators(out.tbl) \subseteq {Str("SBB")}
        /\ Rows(out.tbl) \subseteq Rows(clean_data_abfahrt(inp).tbl)
        /\ Rows(out.tbl) # Rows(clean_data_abfahrt(inp).tbl)

\* C11 as amended: prepare_data returns only SBB rows; when clean_data_abfahrt of the
\* same table returns too, the rows of prepare_data are exactly its SBB rows, in the
\* same order: a subset, and a strict one exactly when clean_data_abfahrt returns a row
\* of another operator.
C11_PreparedSubset ==
    Prepared =>
        /\ Operators(out.tbl) \subseteq {Str("SBB")}
        /\ clean_data_abfahrt(inp).status = "ok" =>
                /\ out.tbl.cols = clean_data_abfahrt(inp).tbl.cols
                /\ out.tbl.rows =
                        SelectSeq(clean_data_abfahrt(inp).tbl.rows,
                                  LAMBDA r : r.c["BETREIBER_ABK"] = Str("SBB"))
                /\ Rows(out.tbl) \subseteq Rows(clean_data_abfahrt(inp).tbl)
                /\ (Rows(out.tbl) # Rows(clean_data_abfahrt(inp).tbl)) <=>
                        (Operators(clean_data_abfahrt(inp).tbl) \ {Str("SBB")} # {})

\* an SBB train and a train of another operator go in; clean_data_abfahrt drops the
\* other one for its estimated departure, so both pipelines return the same row
C11_Witness ==
    /\ Prepared
    /\ Str("BLS") \in Operators(inp)
    /\ Len(out.tbl.rows) = 1
    /\ clean_data_abfahrt(inp).status = "ok"
    /\ Rows(out.tbl) = Rows(clean_data_abfahrt(inp).tbl)

\* a row of the input that passes the mode, status and non-null filters
PassesFilters(a) ==
    /\ a.c["PRODUKT_ID"] = Str("Zug")
    /\ a.c["AB_PROGNOSE_STATUS"] = Str("REAL")
    /\ \A x \in TimeColumns : notna(a.c[x])

\* C17: a row that passes the mode, status and non-null filters (and is an SBB row,
\* for prepare_data) is in the table the pipeline returns, with its delay, whatever
\* the delay is: no row is removed for a delay of -600 s or less, or 3600 s or more.
C17_NoOutlierClipping ==
    (Cleaned \/ Prepared) =>
        \A a \in Rows(inp) :
            (PassesFilters(a) /\ (Prepared => a.c["BETREIBER_ABK"] = Str("SBB"))) =>
                /\ a.idx \in Index(out.tbl)
                /\ RowAt(out.tbl, a.idx).c[DelayColumn] =
                        Num(TextSeconds(a.c["AB_PROGNOSE"]) - TextSeconds(a.c["ABFAHRTSZEIT"]))

\* a train ten minutes early and a train an hour late are both returned
C17_Witness ==
    /\ Prepared
    /\ \E r \in Rows(out.tbl) : r.c[DelayColumn] = Num(0 - 600)
    /\ \E r \in Rows(out.tbl) : r.c[DelayColumn] = Num(3600)

C12_PreparedEqualsPipelineOnRaw ==
    (last.op = "read_prepared_data" /\ last.status \notin SourceFailures) =>
        /\ last.status = "ok"
        /\ fs.raw[last.date].exists
        /\ last.tbl = prepare_data(read_parquet(fs.raw[last.date])).tbl

\* C18: no reader call ends because a stage did not find a column it reads or drops.
C18_StagesFindTheirColumns ==
    last.op \in Readers => last.status # "KeyError"

\* C15: a reader call for a date that has no file of any tier, and for which the
\* archive holds no csv or the download leaves none behind, ends with the error of
\* the download or of the missing file, returns no table and leaves no raw, cleaned
\* or prepared artifact of the date.
C15_NoSourceNoArtifact ==
    [][LET d == last'.date
       IN  ( /\ last'.op \in Readers
             /\ ~fs.csv[d].exists /\ ~fs.raw[d].exists
             /\ ~fs.cleaned[d].exists /\ ~fs.prepared[d].exists
             /\ (~remote[d].exists \/ ~fs'.csv[d].exists) ) =>
                /\ last'.status \in {"ConnectionError", "BadZipFile", "FileNotFoundError"}
                /\ last'.tbl = NoTable
                /\ ~fs'.csv[d].exists
                /\ ~fs'.raw[d].exists
                /\ ~fs'.cleaned[d].exists
                /\ ~fs'.prepared[d].exists]_vars

\* the archive arrived and was extracted, and it holds no csv of the date
C15_Witness ==
    /\ last.op = "read_cleaned_data"
    /\ last.status = "FileNotFoundError"
    /\ last.trace = <<"download", "read_csv">>
    /\ fs.zip = "complete"
    /\ \E e \in Dates : fs.csv[e].exists
    /\ ~fs.csv[last.date].exists
    /\ ~fs.raw[last.date].exists
    /\ ~fs.cleaned[last.date].exists

(***************************************************************************)
(* Properties of the range readers                                         *)
(***************************************************************************)
AscendingDates(a, b) == [i \in 1..(b - a + 1) |-> a + i - 1]
TierOf(op) == IF op = "read_cleaned_data_from_daterange" THEN "cleaned" ELSE "prepared"

\* the rows of the artifacts of a tier for the dates a..b, one date after the other
RECURSIVE RowsInOrder(_, _, _)
RowsInOrder(a, b, tier) ==
    IF a > b THEN <<>>
    ELSE read_parquet(fs[tier][a]).rows \o RowsInOrder(a + 1, b, tier)

\* C13: a range reader called with start <= end, that does not fail for want of data,
\* has called the single-date reader once for each day from start to end in ascending
\* order, and returns the rows of the tables of these days in that order.
C13_RangeIsConcatenation ==
    (last.op \in RangeReaders /\ last.date <= last.end /\ last.status \notin SourceFailures) =>
        /\ last.status = "ok"
        /\ last.calls = AscendingDates(last.date, last.end)
        /\ last.tbl.rows = RowsInOrder(last.date, last.end, TierOf(last.op))

\* C14: a range reader whose single-date read fails for a day ends with that failure
\* and without a table; it has called the single-date reader for the days from start
\* up to that day and for none after it, and the raw, cleaned and prepared artifacts of
\* the later days are as before the call. A range reader that returns a table has read
\* every day of the range: no failure is passed over.
C14_RangeFailsFast ==
    [][(last'.op \in RangeReaders /\ last'.date <= last'.end) =>
        LET n == Len(last'.calls)
            tier == TierOf(last'.op)
        IN  /\ n >= 1
            /\ last'.calls = AscendingDates(last'.date, last'.date + n - 1)
            /\ \A e \in last'.date..(last'.date + n - 2) : fs'[tier][e].exists
            /\ last'.status = "ok" =>
                    /\ last'.date + n - 1 = last'.end
                    /\ fs'[tier][last'.end].exists
            /\ last'.status # "ok" =>
                    /\ last'.tbl = NoTable
                    /\ ~fs'[tier][last'.date + n - 1].exists
                    /\ \A e \in Dates :
                            e > last'.date + n - 1 =>
                                /\ fs'.raw[e] = fs.raw[e]
                                /\ fs'.cleaned[e] = fs.cleaned[e]
                                /\ fs'.prepared[e] = fs.prepared[e]]_vars

\* the read of the first day fails on its garbled csv; the second day, whose csv the
\* same download has extracted, is not read
C14_Witness ==
    /\ last.op = "read_cleaned_data_from_daterange"
    /\ last.date < last.end
    /\ last.status = "ValueError"
    /\ last.calls = <<last.date>>
    /\ remote[last.end] = GoodCsv(last.end)
    /\ fs.csv[last.end].exists
    /\ ~fs.raw[last.end].exists
    /\ ~fs.cleaned[last.end].exists

\* C19: whatever the single-date readers and the range readers have done to a
\* directory that was empty, a date that has a prepared artifact has a cleaned one, and
\* a date that has a cleaned artifact has a raw one.
C19_BottomUp ==
    \A d \in Dates :
        /\ fs.prepared[d].exists => fs.cleaned[d].exists
        /\ fs.cleaned[d].exists => fs.raw[d].exists

\* a range read has left cleaned and raw artifacts for two dates
C19_Witness ==
    /\ last.op \in RangeReaders
    /\ \E d, e \in Dates :
        /\ d # e
        /\ fs.cleaned[d].exists /\ fs.raw[d].exists
        /\ fs.cleaned[e].exists /\ fs.raw[e].exists

====
